---- MODULE Spec2Model ----
(***************************************************************************)
(* Model of CareerGuidanceSystem (src/enhanced-career-guidance.py):        *)
(*   - _optimize_learning_path_dp, executed statement by statement;        *)
(*   - _build_course_similarity_matrix / _calculate_course_similarity.     *)
(* Python values are modelled as follows.                                  *)
(*   list            sequence                                              *)
(*   dict            sequence of entries in insertion order (a dict keeps  *)
(*                   the position of a key whose value is replaced)        *)
(*   frozenset       set                                                   *)
(*   Course          its id; a candidate list is a list of catalog         *)
(*                   records, so equal ids carry equal durations           *)
(*   float utility   a natural number of utility units; "+" rounds to      *)
(*                   MantissaBits significant bits, nearest-even, as IEEE  *)
(*                   addition does with 53                                 *)
(*   exception       pc = "done" with error set to the exception's type    *)
(***************************************************************************)
EXTENDS Integers, Sequences, FiniteSets

\* ------------------------------------------------------------------ bounds
MaxLen == 3         \* longest candidate list
MaxDur == 2         \* longest course, in weeks
MaxUtil == 3        \* largest single utility, in units
MaxWeeks == 3       \* largest budget
MantissaBits == 2   \* significant bits kept by an addition
MaxCatalog == 2     \* most courses in the catalog
MaxSkills == 2      \* most skills listed by a course

Ids == {"a", "b", "c"}
IdOrd == [i \in Ids |-> CASE i = "a" -> 1 [] i = "b" -> 2 [] OTHER -> 3]

VARIABLES
    courses,          \* argument: candidate list (ids, repeats allowed)
    duration_weeks,   \* course.duration_weeks, by id
    utilities,        \* argument: utilities[course.id]
    max_weeks,        \* argument
    dp,               \* dp[w + 1] is the dict of layer w
    weeks, si, ci,    \* positions of the three nested loops
    iter_used,        \* size of dp[weeks] when its key iterator was created
    pc,
    best_utility, best_path,
    result, error,
    last_write,       \* history: the last write to dp
    calls,            \* history: budget and returned path of the finished call
    catalog,          \* self.courses_db
    similarity_matrix,
    sim_i, sim_j,     \* positions of the two nested loops
    sim_pc, sim_error

optVars == <<courses, duration_weeks, utilities, max_weeks, dp, weeks, si, ci,
             iter_used, pc, best_utility, best_path, result, error, last_write>>
simVars == <<catalog, similarity_matrix, sim_i, sim_j, sim_pc, sim_error>>
vars == <<optVars, calls, simVars>>

\* ------------------------------------------------------------- helpers
RECURSIVE Pow2(_)
Pow2(e) == IF e = 0 THEN 1 ELSE 2 * Pow2(e - 1)

\* unit in the last place of n >= 0 at MantissaBits significant bits
RECURSIVE UlpFrom(_, _)
UlpFrom(n, u) == IF n < u * Pow2(MantissaBits) THEN u ELSE UlpFrom(n, 2 * u)

\* round-to-nearest, ties to even
RoundNearestEven(n) ==
    LET u == UlpFrom(n, 1)
        q == n \div u
        r == n % u
    IN  IF 2 * r < u THEN q * u
        ELSE IF 2 * r > u THEN (q + 1) * u
        ELSE IF q % 2 = 0 THEN q * u ELSE (q + 1) * u

\* float + float
FAdd(x, y) == RoundNearestEven(x + y)

Representable(n) == RoundNearestEven(n) = n

\* list indexing dp[i]: the position in the sequence, 0 when IndexError
PyIndex(i, len) ==
    IF 0 <= i /\ i < len THEN i + 1
    ELSE IF 0 - len <= i /\ i < 0 THEN len + i + 1
    ELSE 0

\* dict lookup: position of key k in layer d, 0 when absent
KeyPos(d, k) ==
    IF \E p \in 1..Len(d) : d[p].key = k
    THEN CHOOSE p \in 1..Len(d) : d[p].key = k
    ELSE 0

RECURSIVE SeqsUpTo(_, _)
SeqsUpTo(S, n) ==
    IF n = 0 THEN {<<>>}
    ELSE LET shorter == SeqsUpTo(S, n - 1)
         IN  shorter \cup {Append(s, x) : s \in {t \in shorter : Len(t) = n - 1}, x \in S}

Range(s) == {s[p] : p \in 1..Len(s)}

\* candidate lists up to renaming of ids: first occurrences come in id order
Canonical(s) ==
    \A p \in 1..Len(s) :
        \A i \in Ids : IdOrd[i] < IdOrd[s[p]] => \E q \in 1..(p - 1) : s[q] = i

CandidateLists == {s \in SeqsUpTo(Ids, MaxLen) : Canonical(s)}

\* the three catalog courses, each listed once
AllCourses == <<"a", "b", "c">>

NoWrite == [kind |-> "none"]

\* --------------------------------------------------- _optimize_learning_path_dp
\* The arguments of a call: any list of at most two distinct courses, repeats
\* allowed, with any durations (zero and negative included) and any budget
\* (negative included); or the three courses with positive durations and a
\* budget >= 0.  Utilities are non-negative floats.
InitOpt ==
    /\ \/ /\ courses \in {s \in CandidateLists : Cardinality(Range(s)) <= 2}
          /\ duration_weeks \in [Range(courses) -> (0 - 1)..MaxDur]
          /\ max_weeks \in (0 - 1)..MaxWeeks
       \/ /\ courses = AllCourses
          /\ duration_weeks \in [Range(courses) -> 1..MaxDur]
          /\ max_weeks \in 0..MaxWeeks
    /\ utilities \in [Range(courses) -> {u \in 0..MaxUtil : Representable(u)}]
    /\ dp = <<>>
    /\ weeks = 0 /\ si = 0 /\ ci = 0 /\ iter_used = 0
    /\ pc = "call"
    /\ best_utility = 0 - 1
    /\ best_path = <<>>
    /\ result = <<>>
    /\ error = "none"
    /\ last_write = NoWrite

Raise(kind) ==
    /\ pc' = "done"
    /\ error' = kind

\* lines 242-246: n = len(courses); dp = [{} ...]; dp[0][frozenset()] = (0, [])
Enter ==
    /\ pc = "call"
    /\ IF max_weeks + 1 <= 0
       THEN /\ Raise("IndexError")
            /\ dp' = <<>>
            /\ UNCHANGED <<weeks>>
       ELSE /\ dp' = [w \in 1..(max_weeks + 1) |->
                        IF w = 1 THEN <<[key |-> {}, utility |-> 0, path |-> <<>>]>>
                        ELSE <<>>]
            /\ weeks' = 0 - 1
            /\ pc' = "weeks"
            /\ UNCHANGED error
    /\ UNCHANGED <<courses, duration_weeks, utilities, max_weeks, si, ci, iter_used,
                   best_utility, best_path, result, last_write>>

\* line 248: for weeks in range(max_weeks + 1); line 249 creates the key iterator
NextWeeks ==
    /\ pc = "weeks"
    /\ IF weeks + 1 <= max_weeks
       THEN /\ weeks' = weeks + 1
            /\ iter_used' = Len(dp[weeks + 2])
            /\ si' = 0
            /\ pc' = "subset"
            /\ UNCHANGED <<best_utility, best_path>>
       ELSE \* lines 267-268, and the first step of range() at line 270
            /\ best_utility' = 0 - 1
            /\ best_path' = <<>>
            /\ weeks' = 0
            /\ si' = 0
            /\ pc' = "best"
            /\ UNCHANGED iter_used
    /\ UNCHANGED <<courses, duration_weeks, utilities, max_weeks, dp, ci,
                   result, error, last_write>>

\* line 249: for subset in dp[weeks].keys()  (one step of the dict iterator)
NextSubset ==
    /\ pc = "subset"
    /\ IF Len(dp[weeks + 1]) # iter_used
       THEN /\ Raise("RuntimeError")
            /\ UNCHANGED <<si, ci>>
       ELSE IF si + 1 <= Len(dp[weeks + 1])
       THEN /\ si' = si + 1
            /\ ci' = 1
            /\ pc' = IF Len(courses) = 0 THEN "subset" ELSE "course"
            /\ UNCHANGED error
       ELSE /\ pc' = "weeks"
            /\ UNCHANGED <<si, ci, error>>
    /\ UNCHANGED <<courses, duration_weeks, utilities, max_weeks, dp, weeks, iter_used,
                   best_utility, best_path, result, last_write>>

\* line 251: if course.id not in subset
NotChosenAlways(course, subset) == TRUE

NotChosen(course, subset) == course \notin subset

\* line 252: new_weeks = weeks + course.duration_weeks
NewWeeksOfCourseOnly(w, course) == duration_weeks[course]

NewWeeks(w, course) == w + duration_weeks[course]

\* line 253: if new_weeks <= max_weeks
FitsAlways(nw) == TRUE

Fits(nw) == nw <= max_weeks

\* line 255: new_utility = dp[weeks][subset][0] + utilities[course.id]
NewUtilityOfCourseOnly(u, course) == utilities[course]

NewUtility(u, course) == FAdd(u, utilities[course])

\* lines 257-264: the guarded store into dp[new_weeks]
StoreAlways(layer, new_subset, new_utility, new_path) ==
    LET pos == KeyPos(layer, new_subset)
        entry == [key |-> new_subset, utility |-> new_utility, path |-> new_path]
    IN  IF pos = 0 THEN Append(layer, entry) ELSE [layer EXCEPT ![pos] = entry]

Store(layer, new_subset, new_utility, new_path) ==
    LET pos == KeyPos(layer, new_subset)
        entry == [key |-> new_subset, utility |-> new_utility, path |-> new_path]
    IN  IF pos = 0
        THEN Append(layer, entry)
        ELSE IF new_utility > layer[pos].utility
        THEN [layer EXCEPT ![pos] = entry]
        ELSE layer

\* lines 250-264: one iteration of `for course in courses`
ScanCourse ==
    /\ pc = "course"
    /\ LET cur == dp[weeks + 1][si]
           subset == cur.key
           course == courses[ci]
           new_weeks == NewWeeks(weeks, course)
           new_subset == subset \cup {course}
           new_utility == NewUtility(cur.utility, course)
           L == PyIndex(new_weeks, Len(dp))
           advance == /\ IF ci < Len(courses)
                         THEN ci' = ci + 1 /\ pc' = "course"
                         ELSE ci' = ci /\ pc' = "subset"
                      /\ UNCHANGED error
       IN  IF ~NotChosen(course, subset) \/ ~Fits(new_weeks)
           THEN /\ advance
                /\ UNCHANGED <<dp, last_write>>
           ELSE IF L = 0
           THEN /\ Raise("IndexError")
                /\ UNCHANGED <<dp, ci, last_write>>
           ELSE /\ dp' = [dp EXCEPT ![L] = Store(dp[L], new_subset, new_utility,
                                                 Append(cur.path, course))]
                /\ last_write' =
                     IF dp'[L] = dp[L] THEN [kind |-> "kept", from |-> weeks, to |-> L - 1]
                     ELSE IF Len(dp'[L]) > Len(dp[L])
                     THEN [kind |-> "insert", from |-> weeks, to |-> L - 1]
                     ELSE [kind |-> "overwrite", from |-> weeks, to |-> L - 1]
                /\ advance
    /\ UNCHANGED <<courses, duration_weeks, utilities, max_weeks, weeks, si, iter_used,
                   best_utility, best_path, result>>

\* line 272: if utility > best_utility
BetterOrEqual(u, best) == u >= best

Better(u, best) == u > best

\* lines 270-274 with the answer read from the last layer only
FindBestLastLayer ==
    /\ pc = "best"
    /\ IF weeks = max_weeks /\ si + 1 <= Len(dp[weeks + 1])
       THEN LET e == dp[weeks + 1][si + 1]
            IN  /\ si' = si + 1
                /\ IF Better(e.utility, best_utility)
                   THEN best_utility' = e.utility /\ best_path' = e.path
                   ELSE UNCHANGED <<best_utility, best_path>>
                /\ UNCHANGED <<weeks, pc, result>>
       ELSE IF weeks + 1 <= max_weeks
       THEN /\ weeks' = weeks + 1
            /\ si' = 0
            /\ UNCHANGED <<best_utility, best_path, pc, result>>
       ELSE /\ result' = best_path
            /\ pc' = "done"
            /\ UNCHANGED <<weeks, si, best_utility, best_path>>
    /\ UNCHANGED <<courses, duration_weeks, utilities, max_weeks, dp, ci, iter_used,
                   error, last_write>>

\* lines 270-274: one step of the scan for the best state
FindBest ==
    /\ pc = "best"
    /\ IF si + 1 <= Len(dp[weeks + 1])
       THEN LET e == dp[weeks + 1][si + 1]
            IN  /\ si' = si + 1
                /\ IF Better(e.utility, best_utility)
                   THEN best_utility' = e.utility /\ best_path' = e.path
                   ELSE UNCHANGED <<best_utility, best_path>>
                /\ UNCHANGED <<weeks, pc, result>>
       ELSE IF weeks + 1 <= max_weeks
       THEN /\ weeks' = weeks + 1
            /\ si' = 0
            /\ UNCHANGED <<best_utility, best_path, pc, result>>
       ELSE \* line 276
            /\ result' = best_path
            /\ pc' = "done"
            /\ UNCHANGED <<weeks, si, best_utility, best_path>>
    /\ UNCHANGED <<courses, duration_weeks, utilities, max_weeks, dp, ci, iter_used,
                   error, last_write>>

InitOptIdle ==
    /\ courses = <<>>
    /\ duration_weeks = <<>>
    /\ utilities = <<>>
    /\ max_weeks = 0
    /\ dp = <<>>
    /\ weeks = 0 /\ si = 0 /\ ci = 0 /\ iter_used = 0
    /\ pc = "idle"
    /\ best_utility = 0 - 1
    /\ best_path = <<>>
    /\ result = <<>>
    /\ error = "none"
    /\ last_write = NoWrite

\* a caller that, after a call returned, calls again with the same candidates and
\* utilities and a budget at least as large
CallAgain ==
    /\ pc = "done" /\ error = "none" /\ calls = <<>>
    /\ \E w2 \in max_weeks..MaxWeeks : max_weeks' = w2
    /\ calls' = <<[max_weeks |-> max_weeks, path |-> result]>>
    /\ dp' = <<>>
    /\ weeks' = 0 /\ si' = 0 /\ ci' = 0 /\ iter_used' = 0
    /\ pc' = "call"
    /\ best_utility' = 0 - 1
    /\ best_path' = <<>>
    /\ result' = <<>>
    /\ last_write' = NoWrite
    /\ UNCHANGED <<courses, duration_weeks, utilities, error>>

\* ------------------------------------------- _build_course_similarity_matrix
\* SkillLevel is not part of the source file: five ordinal levels, numbered from 0
NumLevels == 5

Skills == {"Python", "Pandas"}

\* rating in tenths and completion rate in hundredths, as in _load_courses
Grades == {[rating |-> 45, completion_rate |-> 85], [rating |-> 47, completion_rate |-> 78]}

CourseRecords ==
    {[skills |-> sk, difficulty |-> d, rating |-> g.rating,
      completion_rate |-> g.completion_rate] :
        sk \in SeqsUpTo(Skills, MaxSkills), d \in {1, 2}, g \in Grades}

\* a similarity is the exact fraction num / den
Zero == [num |-> 0, den |-> 1]
One == [num |-> 1, den |-> 1]

Abs(x) == IF x < 0 THEN 0 - x ELSE x

\* lines 122-124: max(len(course1.skills), len(course2.skills))
SkillDenominatorOfFirst(course1, course2) == Len(course1.skills)

SkillDenominator(course1, course2) ==
    IF Len(course1.skills) >= Len(course2.skills)
    THEN Len(course1.skills) ELSE Len(course2.skills)

\* lines 118-153, for a non-zero skill denominator: the weighted sum
\*   0.4 * common / m + 0.3 * (1 - dd / len(SkillLevel))
\*   + 0.2 * (1 - dr / 5) + 0.1 * (1 - dc)
\* over the common denominator 1000 * m * len(SkillLevel)
CalculateCourseSimilarity(course1, course2) ==
    LET common == Cardinality(Range(course1.skills) \cap Range(course2.skills))
        m == SkillDenominator(course1, course2)
        dd == Abs(course1.difficulty - course2.difficulty)
        dr == Abs(course1.rating - course2.rating)
        dc == Abs(course1.completion_rate - course2.completion_rate)
    IN  [num |-> 400 * common * NumLevels
                 + 300 * m * (NumLevels - dd)
                 + 4 * m * NumLevels * (50 - dr)
                 + m * NumLevels * (100 - dc),
         den |-> 1000 * m * NumLevels]

InitSimIdle ==
    /\ catalog = <<>>
    /\ similarity_matrix = <<>>
    /\ sim_i = 0 /\ sim_j = 0
    /\ sim_pc = "idle"
    /\ sim_error = "none"

InitSim ==
    /\ catalog \in SeqsUpTo(CourseRecords, MaxCatalog)
    /\ similarity_matrix = <<>>
    /\ sim_i = 0 /\ sim_j = 0
    /\ sim_pc = "call"
    /\ sim_error = "none"

\* lines 104-105: n_courses = len(self.courses_db); np.zeros((n, n))
BuildStart ==
    /\ sim_pc = "call"
    /\ similarity_matrix' = [i \in 1..Len(catalog) |-> [j \in 1..Len(catalog) |-> Zero]]
    /\ sim_i' = 1 /\ sim_j' = 1
    /\ sim_pc' = IF Len(catalog) = 0 THEN "return" ELSE "cell"
    /\ UNCHANGED <<catalog, sim_error>>

\* lines 107-114: one iteration of the inner loop
BuildCell ==
    /\ sim_pc = "cell"
    /\ LET course1 == catalog[sim_i]
           course2 == catalog[sim_j]
           advance ==
               /\ IF sim_j < Len(catalog)
                  THEN sim_j' = sim_j + 1 /\ sim_i' = sim_i /\ sim_pc' = "cell"
                  ELSE IF sim_i < Len(catalog)
                  THEN sim_j' = 1 /\ sim_i' = sim_i + 1 /\ sim_pc' = "cell"
                  ELSE UNCHANGED <<sim_i, sim_j>> /\ sim_pc' = "return"
               /\ UNCHANGED sim_error
       IN  IF sim_i = sim_j
           THEN /\ similarity_matrix' = [similarity_matrix EXCEPT ![sim_i][sim_j] = One]
                /\ advance
           ELSE IF SkillDenominator(course1, course2) = 0
           THEN /\ sim_pc' = "done"
                /\ sim_error' = "ZeroDivisionError"
                /\ UNCHANGED <<similarity_matrix, sim_i, sim_j>>
           ELSE /\ similarity_matrix' =
                      [similarity_matrix EXCEPT ![sim_i][sim_j] =
                           CalculateCourseSimilarity(course1, course2)]
                /\ advance
    /\ UNCHANGED catalog

\* line 116
BuildReturn ==
    /\ sim_pc = "return"
    /\ sim_pc' = "done"
    /\ UNCHANGED <<catalog, similarity_matrix, sim_i, sim_j, sim_error>>

\* ------------------------------------------------------------ specifications
Init ==
    /\ InitOpt
    /\ calls = <<>>
    /\ InitSimIdle

Next ==
    \/ Enter /\ UNCHANGED <<calls, simVars>>
    \/ NextWeeks /\ UNCHANGED <<calls, simVars>>
    \/ NextSubset /\ UNCHANGED <<calls, simVars>>
    \/ ScanCourse /\ UNCHANGED <<calls, simVars>>
    \/ FindBest /\ UNCHANGED <<calls, simVars>>

\* one call of _optimize_learning_path_dp
Spec == Init /\ [][Next]_vars

NextMono ==
    \/ Next
    \/ CallAgain /\ UNCHANGED simVars

\* a call of _optimize_learning_path_dp and a second one with a larger budget
SpecMono == Init /\ [][NextMono]_vars

InitBuild ==
    /\ InitOptIdle
    /\ calls = <<>>
    /\ InitSim

NextBuild ==
    \/ BuildStart /\ UNCHANGED <<optVars, calls>>
    \/ BuildCell /\ UNCHANGED <<optVars, calls>>
    \/ BuildReturn /\ UNCHANGED <<optVars, calls>>

\* one call of _build_course_similarity_matrix
SpecSim == InitBuild /\ [][NextBuild]_vars

\* ------------------------------------------------------------- measures
RECURSIVE PathWeeks(_)
PathWeeks(path) ==
    IF path = <<>> THEN 0
    ELSE duration_weeks[Head(path)] + PathWeeks(Tail(path))

\* the utility a path accumulates, as line 255 accumulates it from (0, [])
RECURSIVE PathUtility(_)
PathUtility(path) ==
    IF path = <<>> THEN 0
    ELSE FAdd(PathUtility(SubSeq(path, 1, Len(path) - 1)), utilities[path[Len(path)]])

RECURSIVE SumDur(_)
SumDur(S) ==
    IF S = {} THEN 0
    ELSE LET c == CHOOSE x \in S : TRUE IN duration_weeks[c] + SumDur(S \ {c})

\* the sum of the utilities of a set of courses, in exact arithmetic
RECURSIVE SumUtil(_)
SumUtil(S) ==
    IF S = {} THEN 0
    ELSE LET c == CHOOSE x \in S : TRUE IN utilities[c] + SumUtil(S \ {c})

NoRepeat(path) == \A p, q \in 1..Len(path) : path[p] = path[q] => p = q

Orderings(S) ==
    {o \in [1..Cardinality(S) -> S] : \A p, q \in 1..Cardinality(S) : o[p] = o[q] => p = q}

SetMax(S) == CHOOSE m \in S : \A x \in S : x <= m

FeasibleSets == {S \in SUBSET Range(courses) : SumDur(S) <= max_weeks}

\* the knapsack optimum in exact arithmetic
ExactOptimum == SetMax({SumUtil(S) : S \in FeasibleSets})

\* the knapsack optimum when each set's utilities are added in floating point,
\* in the order that gives the largest sum
FloatOptimum ==
    SetMax(UNION {{PathUtility(o) : o \in Orderings(S)} : S \in FeasibleSets})

\* the courses of S in the order the candidate list first names them
RECURSIVE InListOrder(_, _)
InListOrder(list, S) ==
    IF list = <<>> THEN <<>>
    ELSE IF Head(list) \in S
    THEN <<Head(list)>> \o InListOrder(Tail(list), S \ {Head(list)})
    ELSE InListOrder(Tail(list), S)

\* the knapsack optimum when each set's utilities are added in floating point,
\* in candidate-list order
ListOrderOptimum == SetMax({PathUtility(InListOrder(courses, S)) : S \in FeasibleSets})

\* no addition of candidate utilities rounds
ExactSums == \A S \in SUBSET Range(courses) : Representable(SumUtil(S))

ValidCourses == \A c \in Range(courses) : duration_weeks[c] > 0

Returned == pc = "done" /\ error = "none"


\* every recorded DP state, in the order lines 270-271 scan them
RECURSIVE StatesFrom(_)
StatesFrom(w) ==
    IF w > Len(dp) THEN <<>>
    ELSE [p \in 1..Len(dp[w]) |-> [layer |-> w - 1, utility |-> dp[w][p].utility,
                                   path |-> dp[w][p].path]] \o StatesFrom(w + 1)

AllStates == StatesFrom(1)

\* ------------------------------------------------------------------ claims

\* C1: with positive durations, the returned path's durations sum to at most
\* max_weeks, and no course longer than max_weeks is in it.
C1_DurationWithinBudget ==
    (Returned /\ ValidCourses) =>
        /\ PathWeeks(result) <= max_weeks
        /\ \A p \in 1..Len(result) : duration_weeks[result[p]] <= max_weeks

\* a path was returned although the most useful candidate is too long for the budget
C1_Witness ==
    /\ Returned /\ ValidCourses /\ result # <<>>
    /\ \E c \in Range(courses) :
        /\ duration_weeks[c] > max_weeks
        /\ \A d \in Range(courses) \ {c} : utilities[d] < utilities[c]
    /\ PathWeeks(result) = max_weeks

\* C2: no course id appears twice in the returned path, whatever the input,
\* repeated candidates included.
C2_NoCourseTwice == Returned => NoRepeat(result)

\* a candidate listed twice was chosen, together with another course
C2_Witness ==
    /\ Returned
    /\ \E p, q \in 1..Len(courses) :
        p # q /\ courses[p] = courses[q] /\ courses[p] \in Range(result)
    /\ Len(result) >= 2

\* C3 as stated: the returned path's accumulated utility is the maximum, over the
\* sets of candidates that fit the budget, of the sum of their utilities (read
\* as the exact sum, or as the floating-point sum in candidate-list order).
C3_ExactKnapsack ==
    (Returned /\ ValidCourses) =>
        (best_utility = ExactOptimum \/ best_utility = ListOrderOptimum)

\* C3 as amended: the returned path is a feasible set, its accumulated utility is
\* the floating-point sum along the path, and that is the maximum over feasible
\* sets of the floating-point sum in the set's best order; it is the exact
\* optimum whenever no addition rounds.
C3_FloatKnapsack ==
    (Returned /\ ValidCourses) =>
        /\ Range(result) \in FeasibleSets
        /\ best_utility = PathUtility(result)
        /\ best_utility = FloatOptimum
        /\ ExactSums => best_utility = ExactOptimum

\* three courses were returned and the additions along the returned path rounded
C3_Witness ==
    /\ Returned /\ ValidCourses
    /\ Len(result) = 3
    /\ ~ExactSums
    /\ best_utility # SumUtil(Range(result))

\* C5: when no candidate fits the budget (none at all, or each longer than
\* max_weeks >= 0), the function returns the empty path and raises nothing.
C5_EmptyWhenNothingFits ==
    (pc = "done" /\ max_weeks >= 0
        /\ \A c \in Range(courses) : duration_weeks[c] > max_weeks) =>
        error = "none" /\ result = <<>>

\* the call ended with candidates of positive utility, none of which fits
C5_Witness ==
    /\ pc = "done" /\ max_weeks >= 0
    /\ courses # <<>>
    /\ \A c \in Range(courses) : duration_weeks[c] > max_weeks /\ utilities[c] > 0
    /\ result = <<>> /\ error = "none"

\* C6: a candidate with a non-positive duration ends the call with InvalidCourse:
\* no DP state holding that course is recorded and no path is returned.
C6_InvalidCourseRejected ==
    (max_weeks >= 0 /\ ~ValidCourses) =>
        /\ \A w \in 1..Len(dp) : \A p \in 1..Len(dp[w]) :
             \A c \in dp[w][p].key : duration_weeks[c] > 0
        /\ pc = "done" => error = "InvalidCourse" /\ result = <<>>

\* C7: a negative max_weeks ends the call with InvalidBudget and no path.
C7_InvalidBudgetRejected ==
    (pc = "done" /\ max_weeks < 0) => error = "InvalidBudget" /\ result = <<>>

\* the number of DP states that lines 270-274 have looked at
RECURSIVE SizeBelow(_)
SizeBelow(w) == IF w = 0 THEN 0 ELSE Len(dp[w]) + SizeBelow(w - 1)

Scanned == IF pc = "done" THEN Len(AllStates) ELSE SizeBelow(weeks) + si

\* C9: while the DP states are scanned (layers ascending, insertion order within
\* a layer) and when the path is returned, the best path is that of the first
\* state scanned whose utility is the maximum of those scanned, so a later state
\* of equal utility never replaces it; the returned path therefore has the lowest
\* layer, and with positive durations the smallest total duration, among the
\* maximum-utility states, and it is empty when every utility is 0.
C9_FirstMaximumWins ==
    (pc = "best" \/ Returned) =>
        IF Scanned = 0
        THEN best_utility = 0 - 1 /\ best_path = <<>>
        ELSE
        LET seen == SubSeq(AllStates, 1, Scanned)
            maxU == SetMax({seen[k].utility : k \in 1..Len(seen)})
            first == CHOOSE k \in 1..Len(seen) :
                        /\ seen[k].utility = maxU
                        /\ \A j \in 1..(k - 1) : seen[j].utility < maxU
        IN  /\ best_path = seen[first].path
            /\ best_utility = maxU
            /\ \A k \in 1..Len(seen) :
                 seen[k].utility = maxU => seen[first].layer <= seen[k].layer
            /\ ValidCourses =>
                 \A k \in 1..Len(seen) :
                    seen[k].utility = maxU =>
                        PathWeeks(best_path) <= PathWeeks(seen[k].path)
            /\ Returned =>
                 /\ result = best_path
                 /\ (\A c \in Range(courses) : utilities[c] = 0) => result = <<>>

\* returned with a later state, in a higher layer, as useful as the returned one
C9_Witness ==
    /\ Returned /\ ValidCourses /\ best_utility > 0
    /\ \E k \in 1..Len(AllStates) :
        /\ AllStates[k].utility = best_utility
        /\ AllStates[k].path # result
        /\ AllStates[k].layer > PathWeeks(result)

\* C10 as stated: every entry dp[w][S] = (u, path) has w = the durations of S,
\* u = the sum of the utilities of S (the exact sum, or the floating-point sum
\* along path), path = the ids of S once each; a write goes to a layer above the
\* one scanned; no entry is ever overwritten.
C10_TableNeverOverwritten ==
    ValidCourses =>
        /\ \A w \in 1..Len(dp) : \A p \in 1..Len(dp[w]) :
            LET e == dp[w][p]
            IN  /\ w - 1 = SumDur(e.key)
                /\ e.utility = SumUtil(e.key) \/ e.utility = PathUtility(e.path)
                /\ Range(e.path) = e.key /\ NoRepeat(e.path)
        /\ last_write.kind # "none" => last_write.to > last_write.from
        /\ last_write.kind # "overwrite"

\* C10 as amended, the entries: w is the durations of S, path is the ids of S once
\* each, u is the floating-point sum of the utilities along path (the exact sum
\* when no addition rounds).
C10_EntryInvariant ==
    ValidCourses =>
        \A w \in 1..Len(dp) : \A p \in 1..Len(dp[w]) :
            LET e == dp[w][p]
            IN  /\ w - 1 = SumDur(e.key)
                /\ e.utility = PathUtility(e.path)
                /\ ExactSums => e.utility = SumUtil(e.key)
                /\ Range(e.path) = e.key /\ NoRepeat(e.path)

\* C10 as amended, the writes: a transition changes only layers above the one
\* scanned; an entry is replaced only by one of the same set and strictly greater
\* utility, and never when no addition rounds.
C10_WriteStep ==
    (ValidCourses /\ pc = "course") =>
        /\ Len(dp') = Len(dp)
        /\ \A w \in 1..Len(dp) :
            /\ w <= weeks + 1 => dp'[w] = dp[w]
            /\ Len(dp'[w]) >= Len(dp[w])
            /\ \A p \in 1..Len(dp[w]) :
                \/ dp'[w][p] = dp[w][p]
                \/ /\ dp'[w][p].key = dp[w][p].key
                   /\ dp'[w][p].utility > dp[w][p].utility
                   /\ ~ExactSums

C10_TableInvariant == []C10_EntryInvariant /\ [][C10_WriteStep]_vars

\* an entry was replaced by a better floating-point sum of the same set
C10_Witness ==
    /\ ValidCourses
    /\ last_write.kind = "overwrite"
    /\ last_write.to > last_write.from

\* C4: for the same candidates and utilities and budgets w1 <= w2, the path
\* returned for w2 accumulates at least the utility of the path returned for w1.
C4_MonotoneInBudget ==
    (Returned /\ calls # <<>>) =>
        /\ calls[1].max_weeks <= max_weeks
        /\ PathUtility(result) >= PathUtility(calls[1].path)

\* the second call, with a larger budget, returned a strictly better path
C4_Witness ==
    /\ Returned /\ calls # <<>> /\ ValidCourses
    /\ calls[1].path # <<>>
    /\ calls[1].max_weeks < max_weeks
    /\ PathUtility(result) > PathUtility(calls[1].path)

\* C8: the matrix built is square over the catalog, with 1.0 on the diagonal and
\* entry (i, j) equal to entry (j, i).
C8_SquareSymmetricUnitDiagonal ==
    (sim_pc = "done" /\ sim_error = "none") =>
        LET n == Len(catalog)
        IN  /\ DOMAIN similarity_matrix = 1..n
            /\ \A i \in 1..n : DOMAIN similarity_matrix[i] = 1..n
            /\ \A i \in 1..n : similarity_matrix[i][i] = One
            /\ \A i, j \in 1..n : similarity_matrix[i][j] = similarity_matrix[j][i]

\* a matrix was built for two courses that list different numbers of skills and
\* share one
C8_Witness ==
    /\ sim_pc = "done" /\ sim_error = "none"
    /\ Len(catalog) = 2
    /\ Len(catalog[1].skills) < Len(catalog[2].skills)
    /\ Range(catalog[1].skills) \cap Range(catalog[2].skills) # {}
    /\ similarity_matrix[1][2].num > 0
    /\ similarity_matrix[1][2].num < similarity_matrix[1][2].den

====
